---- MODULE Spec2Model ----
(***************************************************************************)
(* Draft / Arch workbench tools: the Part Box command                      *)
(* (draftguitools/gui_part_box.py), make_clone and getCloneBase            *)
(* (draftfunctions/make_clone.py), the mode and display-mode commands      *)
(* (draftguitools/gui_togglemodes.py), the IFC property layer              *)
(* (archutils/IFCutils.py) and the Opening object                          *)
(* (archobjects/opening.py).                                               *)
(*                                                                         *)
(* Each tool is a small state machine driven by GUI events or calls.  The  *)
(* tools share no state, so each has its own specification (SpecBox,       *)
(* SpecClone, SpecToggle, SpecModes, SpecIfc, SpecOpening, SpecSketch)     *)
(* over the variables it owns.                                             *)
(***************************************************************************)
EXTENDS Integers, Sequences, FiniteSets, TLC

(***************************************************************************)
(* Bounds of the model.                                                    *)
(***************************************************************************)
\* number of Part::Box objects the document may hold (one per activation)
MaxBoxes == 1

\* number of make_clone calls on one document
MaxClones == 2

\* number of objects with a view provider in the document
NumViewObjs == 2

\* number of drawable objects in the document of the construction commands
NumDraftObjs == 2

\* number of window parts in obj.WindowParts (five strings each)
MaxParts == 2

\* number of wires of the sketch obj.Base
NumWires == 2

(***************************************************************************)
(* Vectors.  App.Vector is modelled as a triple of integers.  Python's     *)
(* None is the empty tuple.                                                *)
(***************************************************************************)
None == <<>>

Zero == <<0, 0, 0>>

\* Points the snapper can deliver (clicked or hovered).  They lie on the
\* X axis, so every baseline between two of them is axis-aligned or null
\* and normalising it is exact in integers.
Pts == {<<0, 0, 0>>, <<1, 0, 0>>}

\* Values cubetracker[0].getNormal() can return: the null vector for a
\* degenerate rectangle, or a unit vector perpendicular to the X axis.
Normals == {Zero, <<0, 0, 1>>, <<0, 0, -1>>}

\* Values the dimension input fields can emit with valueChanged(double).
Dims == {0, 1}

Sub(a, b) == <<a[1] - b[1], a[2] - b[2], a[3] - b[3]>>

Add(a, b) == <<a[1] + b[1], a[2] + b[2], a[3] + b[3]>>

Cross(a, b) ==
    <<a[2] * b[3] - a[3] * b[2],
      a[3] * b[1] - a[1] * b[3],
      a[1] * b[2] - a[2] * b[1]>>

Multiply(a, k) == <<a[1] * k, a[2] * k, a[3] * k>>

Sign(x) == IF x > 0 THEN 1 ELSE IF x < 0 THEN -1 ELSE 0

\* Vector.Length is used by the code only in truth tests (n.Length)
IsNull(a) == a = Zero

\* Vector.normalize() of an axis-aligned vector: the unit vector of the axis.
Normalize(a) == <<Sign(a[1]), Sign(a[2]), Sign(a[3])>>

VARIABLES
    \* ---- GuiCommand_Part_Box ----
    points,         \* self.points
    LengthValue,    \* self.LengthValue
    WidthValue,     \* self.WidthValue
    HeightValue,    \* self.HeightValue
    currentpoint,   \* self.currentpoint (None or a vector)
    normal,         \* self.normal (None until first assigned)
    snapping,       \* a Gui.Snapper.getPoint callback is pending
    boxdoc,         \* objects added to App.ActiveDocument by the command
    \* ---- observation of the last handler that ran ----
    last,           \* name of the handler
    lenBefore,      \* len(self.points) when it was entered
    added,          \* number of objects it added to the document
    raised,         \* it ended with an exception
    nclicks,        \* non-null PointCallback calls in this activation
    \* ---- make_clone / getCloneBase ----
    objs,           \* App.ActiveDocument: object i is objs[i]
    call,           \* the last call made: function and arguments
    ret,            \* what it returned (NoObj: nothing / False)
    \* ---- ToggleDisplayMode ----
    DisplayMode,    \* obj.ViewObject.DisplayMode of every object
    listModes,      \* obj.ViewObject.listDisplayModes() of every object
    selection,      \* Gui.Selection.getSelection()
    before,         \* DisplayMode when the last activation started
    before2,        \* DisplayMode when the activation before it started
    streak,         \* activations since the selection last changed (<= 2)
    \* ---- ToggleConstructionMode, ToggleContinueMode, Draft_AddConstruction
    toolbar,        \* Gui.draftToolBar: "absent", "none", "bare" or "full"
    constrChecked,  \* state of the toolbar's constrButton
    continueMode,   \* continue mode of the toolbar
    nToggle,        \* constrButton.toggle() calls of the last activation
    nContinue,      \* toggleContinue() calls of the last activation
    mlast,          \* the command activated last
    cdoc,           \* the document: object i is cdoc[i]
    csel,           \* Gui.Selection.getSelection()
    everSelected,   \* objects selected in an activation that got a toolbar
    \* ---- IFCutils: one document object ----
    PropGroup,      \* obj.getGroupOfProperty(p); "" when p not in PropertiesList
    IfcSchema,      \* obj.IfcSchema ("" while the property is missing)
    IfcType,        \* obj.IfcType ("" while missing or without values)
    IfcTypeEnum,    \* the values the IfcType enumeration offers
    Role,           \* obj.Role of a legacy object
    IfcRole,        \* obj.IfcRole of a legacy object
    IfcDataAttrs,   \* names recorded in json.loads(obj.IfcData["attributes"])
    Expressions,    \* expressions bound by obj.setExpression
    ilast,          \* the function called last
    ischema,        \* the type schema it worked with
    iraised,        \* it ended with an exception
    iclean,         \* attributes were only ever added by setup_ifc_attributes
    \* ---- Opening: one object and its proxy ----
    Filling,        \* obj.Filling
    FillingElement, \* obj.FillingElement links an object
    hasWindowParts, \* the object was given WindowParts and Base
    WindowParts,    \* obj.WindowParts, one record for every five strings
    OpeningPercent, \* obj.Opening (0 also when the property is missing)
    Shape,          \* obj.Shape
    fret,           \* what get_filling_shape returned last
    sketch,         \* the shapes get_filling_by_sketch compounded last
    olast,          \* the method called last
    oraised         \* it ended with an exception

boxvars == <<points, LengthValue, WidthValue, HeightValue, currentpoint,
             normal, snapping, boxdoc, last, lenBefore, added, raised,
             nclicks>>

clonevars == <<objs, call, ret>>

togglevars == <<DisplayMode, listModes, selection, before, before2, streak>>

modevars == <<toolbar, constrChecked, continueMode, nToggle, nContinue,
              mlast, cdoc, csel, everSelected>>

\* the variables of the tools modelled after the first three
ifcvars == <<PropGroup, IfcSchema, IfcType, IfcTypeEnum, Role, IfcRole,
             IfcDataAttrs, Expressions, ilast, ischema, iraised, iclean>>

\* the variables of the Arch tools
openvars == <<Filling, FillingElement, hasWindowParts, WindowParts,
              OpeningPercent, Shape, fret, sketch, olast, oraised>>

archvars == <<ifcvars, openvars>>

restvars == <<modevars, archvars>>

vars == <<boxvars, clonevars, togglevars, restvars>>

\* the state of a tool that is not in use
CloneIdle ==
    /\ objs = <<>>
    /\ call = [fn |-> "init"]
    /\ ret = 0

ToggleIdle ==
    /\ DisplayMode = <<>>
    /\ listModes = <<>>
    /\ selection = {}
    /\ before = <<>>
    /\ before2 = <<>>
    /\ streak = 0

ModesIdle ==
    /\ toolbar = "absent"
    /\ constrChecked = FALSE
    /\ continueMode = FALSE
    /\ nToggle = 0
    /\ nContinue = 0
    /\ mlast = "init"
    /\ cdoc = <<>>
    /\ csel = {}
    /\ everSelected = {}

IfcIdle ==
    /\ PropGroup = <<>>
    /\ IfcSchema = ""
    /\ IfcType = ""
    /\ IfcTypeEnum = {}
    /\ Role = ""
    /\ IfcRole = ""
    /\ IfcDataAttrs = {}
    /\ Expressions = {}
    /\ ilast = "init"
    /\ ischema = <<>>
    /\ iraised = FALSE
    /\ iclean = TRUE

OpenIdle ==
    /\ Filling = ""
    /\ FillingElement = FALSE
    /\ hasWindowParts = FALSE
    /\ WindowParts = <<>>
    /\ OpeningPercent = 0
    /\ Shape = ""
    /\ fret = ""
    /\ sketch = <<>>
    /\ olast = "init"
    /\ oraised = FALSE

ArchIdle ==
    /\ IfcIdle
    /\ OpenIdle

RestIdle ==
    /\ ModesIdle
    /\ ArchIdle

(***************************************************************************)
(* GuiCommand_Part_Box                                                     *)
(*                                                                         *)
(* Calls into the snapper, the trackers and App.Vector are taken to        *)
(* return normally; the only exception modelled is the one the Python code *)
(* of the command raises itself (the unbound p2 of setWidthUI).            *)
(***************************************************************************)
\* before the command is first activated
BoxIdle ==
    /\ points = <<>>
    /\ LengthValue = 0
    /\ WidthValue = 0
    /\ HeightValue = 0
    /\ currentpoint = None
    /\ normal = None
    /\ snapping = FALSE
    /\ boxdoc = <<>>
    /\ last = "init"
    /\ lenBefore = 0
    /\ added = 0
    /\ raised = FALSE
    /\ nclicks = 0

InitBox ==
    /\ BoxIdle
    /\ CloneIdle
    /\ ToggleIdle
    /\ RestIdle

\* cube = addObject("Part::Box","Cube"); cube.Length = ...; cube.Width = ...
MakeBoxSwapped(l, w, h) ==
    [Type |-> "Part::Box", Length |-> w, Width |-> l, Height |-> h]

MakeBox(l, w, h) ==
    [Type |-> "Part::Box", Length |-> l, Width |-> w, Height |-> h]

\* the branch of PointCallback that creates the cube: len(self.points) == 3
CreatesCubeEarly(n) == n = 2

CreatesCube(n) == n = 3

\* Every handler of the command records what it did; none of them touches
\* the state of the other tools.
Observe(name, n) ==
    /\ last' = name
    /\ lenBefore' = Len(points)
    /\ added' = n
    /\ raised' = FALSE
    /\ UNCHANGED <<clonevars, togglevars, restvars>>

ObserveRaise(name) ==
    /\ last' = name
    /\ lenBefore' = Len(points)
    /\ added' = 0
    /\ raised' = TRUE
    /\ UNCHANGED <<clonevars, togglevars, restvars>>

\* Activated: reset the command state and ask the snapper for a point.
Activated ==
    /\ Len(boxdoc) < MaxBoxes
    /\ points' = <<>>
    /\ LengthValue' = 0
    /\ WidthValue' = 0
    /\ HeightValue' = 0
    /\ currentpoint' = None
    /\ snapping' = TRUE
    /\ nclicks' = 0
    /\ Observe("Activated", 0)
    /\ UNCHANGED <<normal, boxdoc>>

\* MoveCallback: remembers the hovered point (the rest updates widgets
\* and trackers only).
MoveCallback(point) ==
    /\ snapping
    /\ currentpoint' = point
    /\ Observe("MoveCallback", 0)
    /\ UNCHANGED <<points, LengthValue, WidthValue, HeightValue, normal,
                   snapping, boxdoc, nclicks>>

\* PointCallback with point = None: the pick was cancelled.
PointCallbackCancel ==
    /\ snapping
    /\ snapping' = FALSE
    /\ Observe("PointCallbackCancel", 0)
    /\ UNCHANGED <<points, LengthValue, WidthValue, HeightValue,
                   currentpoint, normal, boxdoc, nclicks>>

\* PointCallback with a point.  nrm is what cubetracker[0].getNormal()
\* returns for the third point.  The first three branches ask the snapper
\* for the next point, the fourth creates the cube and asks for nothing.
PointCallback(point, nrm) ==
    /\ snapping
    /\ nclicks' = nclicks + 1
    /\ normal' = IF Len(points) = 2 THEN nrm ELSE normal
    /\ snapping' = (Len(points) \in {0, 1, 2})
    /\ IF CreatesCube(Len(points))
       THEN /\ boxdoc' = Append(boxdoc,
                           MakeBox(LengthValue, WidthValue, HeightValue))
            /\ Observe("PointCallback", 1)
       ELSE /\ boxdoc' = boxdoc
            /\ Observe("PointCallback", 0)
    /\ points' = Append(points, point)
    /\ UNCHANGED <<LengthValue, WidthValue, HeightValue, currentpoint>>

setLength(d) ==
    /\ snapping
    /\ LengthValue' = d
    /\ Observe("setLength", 0)
    /\ UNCHANGED <<points, WidthValue, HeightValue, currentpoint, normal,
                   snapping, boxdoc, nclicks>>

setWidth(d) ==
    /\ snapping
    /\ WidthValue' = d
    /\ Observe("setWidth", 0)
    /\ UNCHANGED <<points, LengthValue, HeightValue, currentpoint, normal,
                   snapping, boxdoc, nclicks>>

setHeight(d) ==
    /\ snapping
    /\ HeightValue' = d
    /\ Observe("setHeight", 0)
    /\ UNCHANGED <<points, LengthValue, WidthValue, currentpoint, normal,
                   snapping, boxdoc, nclicks>>

\* setLengthUI: return pressed in the Length field.
setLengthUI ==
    /\ snapping
    /\ IF Len(points) = 1 /\ currentpoint # None /\ LengthValue # 0
       THEN LET baseline == Sub(currentpoint, points[1])
                p2 == Add(points[1],
                          Multiply(Normalize(baseline), LengthValue))
            IN  /\ points' = Append(points, p2)
                /\ Observe("setLengthUI", 0)
       ELSE /\ Observe("setLengthUI", 0)
            /\ UNCHANGED points
    /\ UNCHANGED <<LengthValue, WidthValue, HeightValue, currentpoint,
                   normal, snapping, boxdoc, nclicks>>

\* setWidthUI: return pressed in the Width field.  nrm is what
\* cubetracker[0].getNormal() returns.  p2 is bound only when
\* n = (points[1] - points[0]) x normal is not null; otherwise the use of
\* p2 in self.cubetracker[0].p3(p2) raises UnboundLocalError.
setWidthUI(nrm) ==
    /\ snapping
    /\ IF Len(points) = 2 /\ currentpoint # None /\ WidthValue # 0
       THEN LET n == Cross(Sub(points[2], points[1]), nrm)
                p2 == Add(points[2], Multiply(Normalize(n), WidthValue))
            IN  IF IsNull(n)
                THEN /\ normal' = nrm
                     /\ ObserveRaise("setWidthUI")
                     /\ UNCHANGED points
                ELSE /\ normal' = nrm
                     /\ points' = Append(points, p2)
                     /\ Observe("setWidthUI", 0)
       ELSE /\ Observe("setWidthUI", 0)
            /\ UNCHANGED <<points, normal>>
    /\ UNCHANGED <<LengthValue, WidthValue, HeightValue, currentpoint,
                   snapping, boxdoc, nclicks>>

\* setHeightUI: return pressed in the Height field; creates the cube and
\* switches the snapper off.
setHeightUI ==
    /\ snapping
    /\ IF Len(points) = 3 /\ HeightValue # 0
       THEN /\ boxdoc' = Append(boxdoc,
                           MakeBox(LengthValue, WidthValue, HeightValue))
            /\ snapping' = FALSE
            /\ Observe("setHeightUI", 1)
       ELSE /\ Observe("setHeightUI", 0)
            /\ UNCHANGED <<boxdoc, snapping>>
    /\ UNCHANGED <<points, LengthValue, WidthValue, HeightValue,
                   currentpoint, normal, nclicks>>

(***************************************************************************)
(* Properties of the Part Box command                                      *)
(***************************************************************************)
\* C1 (as stated): within one activation the first three non-null
\* PointCallback calls add no object and the fourth adds exactly one
\* Part::Box.
C1_FourthCallCreates ==
    last = "PointCallback" =>
        /\ (nclicks \in 1..3 => added = 0)
        /\ (nclicks = 4 => added = 1)

\* C1 (amended): a non-null PointCallback call made while fewer than three
\* points are stored adds no object, and one made while exactly three
\* points are stored adds exactly one Part::Box; that call is at most the
\* fourth of the activation.
C1_BoxOnFourthPoint ==
    last = "PointCallback" =>
        /\ (lenBefore < 3 => added = 0)
        /\ (lenBefore = 3 =>
               /\ added = 1
               /\ boxdoc[Len(boxdoc)].Type = "Part::Box"
               /\ nclicks <= 4)
        /\ lenBefore <= 3

\* four clicked points created the box
C1_Witness ==
    /\ last = "PointCallback"
    /\ nclicks = 4
    /\ lenBefore = 3
    /\ added = 1
    /\ Len(points) = 4

\* C2: a created Part::Box (by PointCallback or setHeightUI) has Length,
\* Width and Height equal to LengthValue, WidthValue and HeightValue; the
\* three values are reset to 0 by Activated and otherwise changed only by
\* setLength, setWidth and setHeight respectively.
C2_BoxHasEnteredDimensions ==
    [][ /\ (boxdoc' # boxdoc =>
               /\ last' \in {"PointCallback", "setHeightUI"}
               /\ boxdoc' = Append(boxdoc,
                                   [Type |-> "Part::Box",
                                    Length |-> LengthValue,
                                    Width |-> WidthValue,
                                    Height |-> HeightValue]))
        /\ (last' = "Activated" =>
               LengthValue' = 0 /\ WidthValue' = 0 /\ HeightValue' = 0)
        /\ (LengthValue' # LengthValue => last' \in {"Activated", "setLength"})
        /\ (WidthValue' # WidthValue => last' \in {"Activated", "setWidth"})
        /\ (HeightValue' # HeightValue => last' \in {"Activated", "setHeight"})
      ]_vars

\* a box with distinct Length and Width was created from the Height field
C2_Witness ==
    /\ last = "setHeightUI"
    /\ added = 1
    /\ boxdoc[Len(boxdoc)].Length = 1
    /\ boxdoc[Len(boxdoc)].Width = 0
    /\ boxdoc[Len(boxdoc)].Height = 1

\* C3 (as stated): setLengthUI with exactly 1 stored point, a current mouse
\* point and a non-zero LengthValue appends exactly one point; setWidthUI
\* with exactly 2 stored points, a current mouse point and a non-zero
\* WidthValue appends exactly one point; otherwise each leaves the stored
\* points and the document unchanged.
C3_DimensionStandsForPoint ==
    [][ /\ (last' = "setLengthUI" =>
               /\ boxdoc' = boxdoc
               /\ IF Len(points) = 1 /\ currentpoint # None /\ LengthValue # 0
                  THEN /\ Len(points') = Len(points) + 1
                       /\ SubSeq(points', 1, Len(points)) = points
                  ELSE points' = points)
        /\ (last' = "setWidthUI" =>
               /\ boxdoc' = boxdoc
               /\ IF Len(points) = 2 /\ currentpoint # None /\ WidthValue # 0
                  THEN /\ Len(points') = Len(points) + 1
                       /\ SubSeq(points', 1, Len(points)) = points
                  ELSE points' = points)
      ]_vars

NextBox ==
    \/ Activated
    \/ \E p \in Pts : MoveCallback(p)
    \/ PointCallbackCancel
    \/ \E p \in Pts, nrm \in Normals : PointCallback(p, nrm)
    \/ \E d \in Dims : setLength(d)
    \/ \E d \in Dims : setWidth(d)
    \/ \E d \in Dims : setHeight(d)
    \/ setLengthUI
    \/ \E nrm \in Normals : setWidthUI(nrm)
    \/ setHeightUI

SpecBox == InitBox /\ [][NextBox]_vars

(***************************************************************************)
(* make_clone and getCloneBase                                             *)
(***************************************************************************)
\* getCloneBase returns False / make_clone returns nothing (it raised)
NoObj == 0

\* A document object, as far as make_clone and getCloneBase look at it.
\*   Type         get_type(obj)
\*   is2D         obj.isDerivedFrom("Part::Part2DObject")
\*   hasCloneOf   hasattr(obj, "CloneOf")
\*   CloneOf      obj.CloneOf (NoObj: empty link)
\*   Objects      obj.Objects (ids)
\*   hasPlacement hasattr(obj, "Placement")
\*   Placement    obj.Placement.Base, along one axis
\*   madeBy       the call that created the object
Obj(type, is2d, hasCO, co, objects, hasPl, pl, by) ==
    [Type |-> type, is2D |-> is2d, hasCloneOf |-> hasCO, CloneOf |-> co,
     Objects |-> objects, hasPlacement |-> hasPl, Placement |-> pl,
     madeBy |-> by]

\* Objects a user document can hold before anything is cloned: a standard
\* Arch object, a BuildingPart, an object with CloneOf whose Proxy.Type has
\* no Arch.make function, a 2D Draft object, a generic Part feature and an
\* object without Placement.
BaseObjects ==
    { Obj("Wall", FALSE, TRUE, NoObj, <<>>, TRUE, 1, "user"),
      Obj("BuildingPart", FALSE, FALSE, NoObj, <<>>, TRUE, 1, "user"),
      Obj("Custom", FALSE, TRUE, NoObj, <<>>, TRUE, 1, "user"),
      Obj("Wire", TRUE, FALSE, NoObj, <<>>, TRUE, 1, "user"),
      Obj("Part", FALSE, FALSE, NoObj, <<>>, TRUE, 1, "user"),
      Obj("Group", FALSE, FALSE, NoObj, <<>>, FALSE, 0, "user") }

\* delta arguments: None (<<>>) or a vector <<d>>
Deltas == {<<>>, <<0>>, <<1>>}

\* getattr(Arch, "make" + obj.Proxy.Type) succeeds
HasArchMake(type) == type \in {"Wall", "Component"}

\* obj arguments: a single object or a list of objects
Single(o) == [isList |-> FALSE, one |-> o, many |-> <<>>]

List(os) == [isList |-> TRUE, one |-> NoObj, many |-> os]

ObjArgs ==
    {Single(o) : o \in 1..Len(objs)}
        \cup {List(<<>>)}
        \cup {List(<<o>>) : o \in 1..Len(objs)}
        \cup {List(<<o1, o2>>) : o1 \in 1..Len(objs), o2 \in 1..Len(objs)}

\* if not isinstance(obj,list): obj = [obj]
AsListFirstOnly(arg) ==
    IF arg.isList
    THEN (IF arg.many = <<>> THEN <<>> ELSE <<arg.many[1]>>)
    ELSE <<arg.one>>

AsList(arg) == IF arg.isList THEN arg.many ELSE <<arg.one>>

IsClone(o) ==
    \/ objs[o].hasCloneOf /\ objs[o].CloneOf # NoObj
    \/ objs[o].Type = "Clone"

\* getCloneBase with the strict test made before the Clone test
RECURSIVE GetCloneBaseStrictFirst(_, _)
GetCloneBaseStrictFirst(o, strict) ==
    IF objs[o].hasCloneOf /\ objs[o].CloneOf # NoObj
    THEN GetCloneBaseStrictFirst(objs[o].CloneOf, FALSE)
    ELSE IF strict
    THEN NoObj
    ELSE IF objs[o].Type = "Clone"
    THEN objs[o].Objects[1]
    ELSE o

\* getCloneBase without the Draft Clone case
RECURSIVE GetCloneBaseNoDraft(_, _)
GetCloneBaseNoDraft(o, strict) ==
    IF objs[o].hasCloneOf /\ objs[o].CloneOf # NoObj
    THEN GetCloneBaseNoDraft(objs[o].CloneOf, FALSE)
    ELSE IF strict /\ objs[o].Type # "Clone"
    THEN NoObj
    ELSE o

RECURSIVE GetCloneBase(_, _)
GetCloneBase(o, strict) ==
    IF objs[o].hasCloneOf /\ objs[o].CloneOf # NoObj
    THEN GetCloneBase(objs[o].CloneOf, FALSE)
    ELSE IF objs[o].Type = "Clone"
    THEN objs[o].Objects[1]
    ELSE IF strict
    THEN NoObj
    ELSE o

\* the condition of the Arch branch with forcedraft ignored
UseArchPathAlways(obj, forcedraft) ==
    /\ Len(obj) = 1
    /\ objs[obj[1]].hasCloneOf \/ objs[obj[1]].Type = "BuildingPart"

\* (len(obj) == 1) and (hasattr(obj[0],"CloneOf") or
\*  get_type(obj[0]) == "BuildingPart") and (not forcedraft)
UseArchPath(obj, forcedraft) ==
    /\ Len(obj) = 1
    /\ objs[obj[1]].hasCloneOf \/ objs[obj[1]].Type = "BuildingPart"
    /\ ~forcedraft

\* The object the Arch branch returns: made by Arch.makeComponent or
\* Arch.make<Type>, CloneOf set to the clone base, Placement copied unless
\* the source is a BuildingPart.
ArchClone(o) ==
    LET bp == objs[o].Type = "BuildingPart"
    IN  Obj(IF bp THEN "Component" ELSE objs[o].Type,
            FALSE, TRUE, GetCloneBase(o, FALSE), <<>>, TRUE,
            IF bp THEN 0 ELSE objs[o].Placement,
            IF bp THEN "Arch.makeComponent" ELSE "Arch.make")

\* The object the Draft branch returns: a Clone2D (cl2d) or a Clone, given
\* the Clone proxy, Objects set to the list, moved by delta from its
\* default Placement or, without delta, placed as the single source.
DraftClone(obj, delta, cl2d) ==
    Obj("Clone", cl2d, FALSE, NoObj, obj, TRUE,
        IF delta # <<>>
        THEN 0 + delta[1]
        ELSE IF Len(obj) = 1 /\ objs[obj[1]].hasPlacement
        THEN objs[obj[1]].Placement
        ELSE 0,
        IF cl2d THEN "Clone2D" ELSE "Clone")

\* The Part::FeaturePython left in the document when obj is an empty list:
\* cl.Label = prefix + obj[0].Label raises IndexError right after addObject.
StrayFeature == Obj("Part", FALSE, FALSE, NoObj, <<>>, TRUE, 0, "Clone")

make_clone(arg, delta, forcedraft) ==
    /\ Len(objs) < 1 + MaxClones
    /\ call' = [fn |-> "make_clone", arg |-> arg, delta |-> delta,
                forcedraft |-> forcedraft, strict |-> FALSE]
    /\ LET obj == AsList(arg)
           cl2d == Len(obj) = 1 /\ objs[obj[1]].is2D
           arch == /\ ~cl2d
                   /\ UseArchPath(obj, forcedraft)
                   /\ \/ objs[obj[1]].Type = "BuildingPart"
                      \/ HasArchMake(objs[obj[1]].Type)
       IN  IF obj = <<>>
           THEN /\ objs' = Append(objs, StrayFeature)
                /\ ret' = NoObj
           ELSE /\ objs' = Append(objs, IF arch
                                        THEN ArchClone(obj[1])
                                        ELSE DraftClone(obj, delta, cl2d))
                /\ ret' = Len(objs) + 1
    /\ UNCHANGED <<boxvars, togglevars, restvars>>

getCloneBase(o, strict) ==
    /\ objs # <<>>
    /\ call' = [fn |-> "getCloneBase", arg |-> Single(o), delta |-> <<>>,
                forcedraft |-> FALSE, strict |-> strict]
    /\ ret' = GetCloneBase(o, strict)
    /\ UNCHANGED objs
    /\ UNCHANGED <<boxvars, togglevars, restvars>>

(***************************************************************************)
(* Properties of make_clone and getCloneBase                               *)
(***************************************************************************)
Returned == call.fn = "make_clone" /\ ret # NoObj

\* the objects passed to the last call, in order
Inputs == IF call.arg.isList THEN call.arg.many ELSE <<call.arg.one>>

ByArch(cl) == cl.madeBy \in {"Arch.make", "Arch.makeComponent"}

\* C4: every object returned by make_clone is a linked copy of its source:
\* on the Draft path (Clone2D included) its Objects is the full list of
\* input objects in order, a single non-list input being wrapped into a
\* one-element list; on the Arch path its CloneOf is getCloneBase of the
\* input object.
C4_CloneIsLinkedCopy ==
    Returned =>
        /\ ret = Len(objs)
        /\ IF ByArch(objs[ret])
           THEN /\ Len(Inputs) = 1
                /\ objs[ret].CloneOf = GetCloneBase(Inputs[1], FALSE)
                /\ objs[ret].CloneOf # NoObj
           ELSE /\ objs[ret].madeBy \in {"Clone", "Clone2D"}
                /\ objs[ret].Type = "Clone"
                /\ objs[ret].Objects = Inputs

\* a list of two different objects was cloned
C4_Witness ==
    /\ Returned
    /\ call.arg.isList
    /\ Len(Inputs) = 2
    /\ Inputs[1] # Inputs[2]
    /\ objs[ret].Objects = Inputs

\* C5: with forcedraft = True and a single input that has a CloneOf
\* attribute or is a BuildingPart, the result is not made by an Arch make
\* function, has no CloneOf set, and is a Draft Clone whose Objects is the
\* input.
C5_ForceDraftGivesDraftClone ==
    (/\ Returned
     /\ call.forcedraft
     /\ Len(Inputs) = 1
     /\ objs[Inputs[1]].hasCloneOf \/ objs[Inputs[1]].Type = "BuildingPart")
    => /\ ~ByArch(objs[ret])
       /\ objs[ret].CloneOf = NoObj
       /\ objs[ret].Type = "Clone"
       /\ objs[ret].Objects = <<Inputs[1]>>

\* a standard Arch object was cloned with forcedraft
C5_Witness ==
    /\ Returned
    /\ call.forcedraft
    /\ Len(Inputs) = 1
    /\ objs[Inputs[1]].Type = "Wall"
    /\ objs[ret].madeBy = "Clone"

\* C6 (as stated): given a delta vector, the returned clone's Placement is
\* the source object's Placement translated by delta, for every kind of
\* input object.
C6_CloneMovedByDelta ==
    (/\ Returned
     /\ call.delta # <<>>
     /\ Len(Inputs) = 1
     /\ objs[Inputs[1]].hasPlacement)
    => objs[ret].Placement = objs[Inputs[1]].Placement + call.delta[1]

\* the object at the end of the CloneOf chain starting at o
RECURSIVE ChainEnd(_)
ChainEnd(o) ==
    IF objs[o].hasCloneOf /\ objs[o].CloneOf # NoObj
    THEN ChainEnd(objs[o].CloneOf)
    ELSE o

\* the object cloned by o (o itself when it is no clone)
ClonedBy(o) ==
    LET e == ChainEnd(o)
    IN  IF objs[e].Type = "Clone" THEN objs[e].Objects[1] ELSE e

\* C7 (as stated): getCloneBase(obj), strict = False, returns the base
\* reached by following CloneOf for an object with a non-empty CloneOf,
\* Objects[0] for an object of type Clone and obj for any other object;
\* the object returned is never itself a clone.
C7_BaseIsNeverAClone ==
    (call.fn = "getCloneBase" /\ ~call.strict) =>
        /\ ret = ClonedBy(call.arg.one)
        /\ ~IsClone(ret)

\* C7 (amended): getCloneBase(obj), strict = False, returns the object at
\* the end of obj's CloneOf chain, or that object's Objects[0] when it is
\* of type Clone; so Objects[0] for a Draft clone and obj for an object
\* that is no clone.  The object returned is itself a clone exactly when
\* that holds of a Draft clone's Objects[0].
C7_BaseIsClonedObject ==
    (call.fn = "getCloneBase" /\ ~call.strict) =>
        LET o == call.arg.one
            e == ChainEnd(o)
        IN  /\ ret = ClonedBy(o)
            /\ ret # NoObj
            /\ (~IsClone(o) => ret = o)
            /\ (objs[e].Type # "Clone" => ret = e /\ ~IsClone(ret))
            /\ (IsClone(ret) =>
                   objs[e].Type = "Clone" /\ ret = objs[e].Objects[1])

\* the base of a clone of a clone was asked for
C7_Witness ==
    /\ call.fn = "getCloneBase"
    /\ ~call.strict
    /\ objs[call.arg.one].Type = "Clone"
    /\ ret = objs[call.arg.one].Objects[1]
    /\ IsClone(ret)

\* C8: getCloneBase(obj, strict = True) returns False if and only if obj
\* is not a clone; for a clone it returns what strict = False returns.
C8_StrictFalseIffNoClone ==
    (call.fn = "getCloneBase" /\ call.strict) =>
        /\ (ret = NoObj <=> ~IsClone(call.arg.one))
        /\ (IsClone(call.arg.one) => ret = ClonedBy(call.arg.one))

\* strict was used on a Draft clone and on no clone
C8_Witness ==
    /\ call.fn = "getCloneBase"
    /\ call.strict
    /\ objs[call.arg.one].Type = "Clone"
    /\ ret = objs[call.arg.one].Objects[1]
    /\ \E o \in 1..Len(objs) : ~IsClone(o) /\ GetCloneBase(o, TRUE) = NoObj

InitClone ==
    /\ BoxIdle
    /\ ToggleIdle
    /\ RestIdle
    /\ \E b \in BaseObjects : objs = <<b>>
    /\ call = [fn |-> "init", arg |-> Single(1), delta |-> <<>>,
               forcedraft |-> FALSE, strict |-> FALSE]
    /\ ret = NoObj

NextClone ==
    \/ \E arg \in ObjArgs, delta \in Deltas, fd \in BOOLEAN :
           make_clone(arg, delta, fd)
    \/ \E o \in 1..Len(objs), strict \in BOOLEAN : getCloneBase(o, strict)

SpecClone == InitClone /\ [][NextClone]_vars

(***************************************************************************)
(* ToggleDisplayMode                                                       *)
(***************************************************************************)
ViewObjs == 1..NumViewObjs

\* display modes a view provider may list
Modes == {"Flat Lines", "Wireframe", "Shaded"}

\* the loop body with the elif branch missing: wireframe is never left
ToggleOneWay(mode, listed) ==
    IF mode = "Flat Lines" /\ "Wireframe" \in listed
    THEN "Wireframe"
    ELSE mode

\* the loop body without the listDisplayModes() tests
ToggleUnlisted(mode, listed) ==
    IF mode = "Flat Lines"
    THEN "Wireframe"
    ELSE IF mode = "Wireframe"
    THEN "Flat Lines"
    ELSE mode

\* the body of the loop over the selection: the new DisplayMode of an
\* object whose DisplayMode is mode and whose listDisplayModes() is listed
ToggleOne(mode, listed) ==
    IF mode = "Flat Lines"
    THEN (IF "Wireframe" \in listed THEN "Wireframe" ELSE mode)
    ELSE IF mode = "Wireframe"
    THEN (IF "Flat Lines" \in listed THEN "Flat Lines" ELSE mode)
    ELSE mode

ToggleDisplayMode_Activated ==
    /\ DisplayMode' = [o \in ViewObjs |->
                          IF o \in selection
                          THEN ToggleOne(DisplayMode[o], listModes[o])
                          ELSE DisplayMode[o]]
    /\ before' = DisplayMode
    /\ before2' = before
    /\ streak' = IF streak < 2 THEN streak + 1 ELSE 2
    /\ UNCHANGED <<listModes, selection>>
    /\ UNCHANGED <<boxvars, clonevars, restvars>>

\* the user selects other objects
Select(sel) ==
    /\ sel # selection
    /\ selection' = sel
    /\ streak' = 0
    /\ UNCHANGED <<DisplayMode, listModes, before, before2>>
    /\ UNCHANGED <<boxvars, clonevars, restvars>>

\* DisplayMode is an enumeration over the listed modes, so every object
\* starts in one of its listed modes.
InitToggle ==
    /\ BoxIdle
    /\ CloneIdle
    /\ RestIdle
    /\ listModes \in [ViewObjs -> SUBSET Modes \ {{}}]
    /\ DisplayMode \in [ViewObjs -> Modes]
    /\ \A o \in ViewObjs : DisplayMode[o] \in listModes[o]
    /\ selection \in SUBSET ViewObjs
    /\ before = DisplayMode
    /\ before2 = DisplayMode
    /\ streak = 0

\* C9: Activated changes the DisplayMode of every selected object from
\* 'Flat Lines' to 'Wireframe' when 'Wireframe' is among its display modes
\* and from 'Wireframe' to 'Flat Lines' when 'Flat Lines' is among them; a
\* selected object in another mode or lacking the target mode, and every
\* unselected object, keep their DisplayMode.
C9_ToggleChangesOnlySelected ==
    streak >= 1 =>
        \A o \in ViewObjs :
            DisplayMode[o] =
                IF o \in selection /\ before[o] = "Flat Lines"
                                   /\ "Wireframe" \in listModes[o]
                THEN "Wireframe"
                ELSE IF o \in selection /\ before[o] = "Wireframe"
                                        /\ "Flat Lines" \in listModes[o]
                THEN "Flat Lines"
                ELSE before[o]

\* one activation toggled a selected object, kept a selected object that
\* lacks the target mode and kept an unselected object
C9_Witness ==
    /\ streak = 1
    /\ \E o \in selection : before[o] = "Flat Lines" /\ DisplayMode[o] = "Wireframe"
    /\ \/ \E o \in selection : before[o] = "Wireframe" /\ DisplayMode[o] = "Wireframe"
       \/ \E o \in ViewObjs \ selection : before[o] \in {"Flat Lines", "Wireframe"}

\* C10: with an unchanged selection, two activations in a row restore the
\* DisplayMode of every selected object, each DisplayMode being one of the
\* object's listed display modes.
C10_ToggleTwiceRestores ==
    (streak = 2 /\ \A o \in selection : before2[o] \in listModes[o]) =>
        \A o \in selection : DisplayMode[o] = before2[o]

\* a selected object went to wireframe and back
C10_Witness ==
    /\ streak = 2
    /\ \E o \in selection :
           /\ before2[o] = "Flat Lines"
           /\ before[o] = "Wireframe"
           /\ DisplayMode[o] = "Flat Lines"

NextToggle ==
    \/ ToggleDisplayMode_Activated
    \/ \E sel \in SUBSET ViewObjs : Select(sel)

SpecToggle == InitToggle /\ [][NextToggle]_vars

(***************************************************************************)
(* ToggleConstructionMode, ToggleContinueMode and Draft_AddConstruction    *)
(***************************************************************************)
\* what Gui.draftToolBar can be: no such attribute, None, a toolbar
\* without constrButton, a toolbar with constrButton
Toolbars == {"absent", "none", "bare", "full"}

\* utils.get_param("constructiongroupname", "Construction")
gname == "Construction"

GroupType == "App::DocumentObjectGroup"

\* A document object of the construction commands.
\*   Name     internal name, unique in the document
\*   Type     type id
\*   InGroup  index of the group holding the object (0: none)
\*   Styled   the construction colours and transparency were applied
DocObj(name, type, ingroup, styled) ==
    [Name |-> name, Type |-> type, InGroup |-> ingroup, Styled |-> styled]

DraftNames == <<"Line", "Wire", "Circle">>

\* self.doc.getObject(gname): index of the object of that name, 0 if none
GetObject(doc, name) ==
    IF \E i \in 1..Len(doc) : doc[i].Name = name
    THEN CHOOSE i \in 1..Len(doc) : doc[i].Name = name
    ELSE 0

\* self.doc.addObject(type, name): the document gives the new object the
\* name asked for, or a numbered one when the name is taken
AddObject(doc, type, name) ==
    Append(doc, DocObj(IF GetObject(doc, name) = 0 THEN name
                       ELSE name \o "001",
                       type, 0, FALSE))

\* the lookup of the construction group, never finding it
FindGroupNever(doc) == 0

\* grp = self.doc.getObject(gname)
FindGroup(doc) == GetObject(doc, gname)

\* BaseMode.Activated with mode = "continue" for both commands
ModeCallsContinueOnly(mode, tb) ==
    IF tb \in {"absent", "none"}
    THEN [toggle |-> 0, continue |-> 0]
    ELSE [toggle |-> 0, continue |-> 1]

\* BaseMode.Activated(mode): the calls it makes on the toolbar tb
ModeCalls(mode, tb) ==
    IF tb = "absent"
    THEN [toggle |-> 0, continue |-> 0]
    ELSE IF tb = "none"
    THEN [toggle |-> 0, continue |-> 0]
    ELSE IF mode = "construction" /\ tb = "full"
    THEN [toggle |-> 1, continue |-> 0]
    ELSE IF mode = "continue"
    THEN [toggle |-> 0, continue |-> 1]
    ELSE [toggle |-> 0, continue |-> 0]

BaseMode_Activated(name, mode) ==
    LET c == ModeCalls(mode, toolbar)
    IN  /\ nToggle' = c.toggle
        /\ nContinue' = c.continue
        /\ constrChecked' = IF c.toggle = 1 THEN ~constrChecked
                            ELSE constrChecked
        /\ continueMode' = IF c.continue = 1 THEN ~continueMode
                           ELSE continueMode
        /\ mlast' = name
        /\ UNCHANGED <<toolbar, cdoc, csel, everSelected>>
        /\ UNCHANGED <<boxvars, clonevars, togglevars, archvars>>

ToggleConstructionMode_Activated ==
    BaseMode_Activated("ToggleConstructionMode", "construction")

ToggleContinueMode_Activated ==
    BaseMode_Activated("ToggleContinueMode", "continue")

\* Draft_AddConstruction.Activated.  Without the draftToolBar attribute it
\* returns at once; with Gui.draftToolBar = None the getDefaultColor call
\* raises AttributeError before anything is changed.
Draft_AddConstruction_Activated ==
    /\ mlast' = "Draft_AddConstruction"
    /\ nToggle' = 0
    /\ nContinue' = 0
    /\ IF toolbar \in {"absent", "none"}
       THEN UNCHANGED <<cdoc, everSelected>>
       ELSE LET found == FindGroup(cdoc)
                doc1 == IF found = 0 THEN AddObject(cdoc, GroupType, gname)
                        ELSE cdoc
                grp == IF found = 0 THEN Len(doc1) ELSE found
            IN  /\ cdoc' = [i \in 1..Len(doc1) |->
                               IF i \in csel
                               THEN [doc1[i] EXCEPT !.InGroup = grp,
                                                    !.Styled = TRUE]
                               ELSE doc1[i]]
                /\ everSelected' = everSelected \cup csel
    /\ UNCHANGED <<toolbar, constrChecked, continueMode, csel>>
    /\ UNCHANGED <<boxvars, clonevars, togglevars, archvars>>

\* the user selects other drawable objects
SelectDraftObjs(sel) ==
    /\ sel # csel
    /\ csel' = sel
    /\ mlast' = "Select"
    /\ nToggle' = 0
    /\ nContinue' = 0
    /\ UNCHANGED <<toolbar, constrChecked, continueMode, cdoc, everSelected>>
    /\ UNCHANGED <<boxvars, clonevars, togglevars, archvars>>

\* The document holds the drawable objects first and, when the command
\* ran in an earlier session, the construction group after them.
InitModes ==
    /\ BoxIdle
    /\ CloneIdle
    /\ ToggleIdle
    /\ ArchIdle
    /\ toolbar \in Toolbars
    /\ constrChecked \in BOOLEAN
    /\ continueMode \in BOOLEAN
    /\ nToggle = 0
    /\ nContinue = 0
    /\ mlast = "init"
    /\ \E old \in BOOLEAN :
          cdoc = [i \in 1..NumDraftObjs |->
                     DocObj(DraftNames[i], "Part::Feature", 0, FALSE)]
                 \o (IF old THEN <<DocObj(gname, GroupType, 0, FALSE)>>
                     ELSE <<>>)
    /\ csel \in SUBSET (1..NumDraftObjs)
    /\ everSelected = {}

ToolbarPresent == toolbar \in {"bare", "full"}

C12_EachActivationTogglesOnce ==
    /\ (mlast = "ToggleConstructionMode" =>
           IF toolbar = "absent" THEN nToggle = 0 /\ nContinue = 0
           ELSE nToggle = 1 /\ nContinue = 0)
    /\ (mlast = "ToggleContinueMode" =>
           IF toolbar = "absent" THEN nToggle = 0 /\ nContinue = 0
           ELSE nToggle = 0 /\ nContinue = 1)

\* C12 (amended): ToggleConstructionMode calls toggle() exactly once when
\* Gui.draftToolBar is a toolbar that has a constrButton and not at all
\* otherwise, and never toggleContinue(); ToggleContinueMode calls
\* toggleContinue() exactly once when Gui.draftToolBar is not None and
\* never toggle(); with no draftToolBar, or with None, neither command
\* toggles anything.
C12_TogglesOnceOnUsableToolbar ==
    /\ (mlast = "ToggleConstructionMode" =>
           /\ nToggle = (IF toolbar = "full" THEN 1 ELSE 0)
           /\ nContinue = 0)
    /\ (mlast = "ToggleContinueMode" =>
           /\ nToggle = 0
           /\ nContinue = (IF toolbar \in {"bare", "full"} THEN 1 ELSE 0))

\* the construction button was toggled
C12_Witness ==
    /\ mlast = "ToggleConstructionMode"
    /\ toolbar = "full"
    /\ nToggle = 1
    /\ nContinue = 0

NextModes ==
    \/ ToggleConstructionMode_Activated
    \/ ToggleContinueMode_Activated
    \/ Draft_AddConstruction_Activated
    \/ \E sel \in SUBSET (1..NumDraftObjs) : SelectDraftObjs(sel)

SpecModes == InitModes /\ [][NextModes]_vars

(***************************************************************************)
(* archutils/IFCutils.py                                                   *)
(*                                                                         *)
(* One document object and its properties.  ArchIFCSchema is data: the     *)
(* model carries a sample of it with the shapes the functions tell apart   *)
(* (plain and enumeration attributes, the names add_ifc_attributes leaves  *)
(* out, types whose attribute lists differ).  Calls into the host          *)
(* (addProperty, removeProperty, setExpression) return normally.           *)
(***************************************************************************)
IfcGroup == "IFC"

AttrGroup == "IFC Attributes"

\* the four properties set_ifc_properties adds
IfcProps == {"IfcData", "IfcType", "IfcSchema", "IfcProperties"}

\* the property names migrate_deprecated_attributes looks for
Deprecated == {"Role", "IfcRole", "IfcAttributes"}

\* every property name the sample can put on the object
PropNames ==
    IfcProps \cup Deprecated \cup
    {"Name", "Description", "PredefinedType", "OverallHeight",
     "RefLatitude", "RefLongitude", "LandTitleNumber", "Phase", "Height",
     "Shape", "Label"}

Attr(name, is_enum) == [name |-> name, is_enum |-> is_enum]

\* ArchIFCSchema.IfcProducts.keys(), in the order of the JSON
ProductKeys == <<"IfcBuildingElementProxy", "IfcWall", "IfcWindow", "IfcSite">>

\* ArchIFCSchema.IfcProducts (sample)
IfcProducts ==
    [k \in {ProductKeys[i] : i \in 1..Len(ProductKeys)} |->
        [attributes |->
            CASE k = "IfcWindow" ->
                   <<Attr("Name", FALSE), Attr("Description", FALSE),
                     Attr("OverallHeight", FALSE),
                     Attr("PredefinedType", TRUE)>>
              [] k = "IfcSite" ->
                   <<Attr("Name", FALSE), Attr("Description", FALSE),
                     Attr("RefLatitude", FALSE), Attr("RefLongitude", FALSE),
                     Attr("LandTitleNumber", FALSE)>>
              [] OTHER ->
                   <<Attr("Name", FALSE), Attr("Description", FALSE),
                     Attr("PredefinedType", TRUE)>>]]

\* ArchIFCSchema.IfcContexts (sample)
IfcContexts ==
    [k \in {"IfcProject"} |->
        [attributes |->
            <<Attr("Name", FALSE), Attr("Description", FALSE),
              Attr("Phase", FALSE)>>]]

\* "Ifc" stripped, a space before every capital, the leading space dropped
Canonical(t) ==
    CASE t = "IfcBuildingElementProxy" -> "Building Element Proxy"
      [] t = "IfcWall" -> "Wall"
      [] t = "IfcWindow" -> "Window"
      [] t = "IfcSite" -> "Site"
      [] t = "IfcProject" -> "Project"

canonicalize_ifc_types(keys) == [i \in 1..Len(keys) |-> Canonical(keys[i])]

\* the module-level list IfcTypes
IfcTypes ==
    {canonicalize_ifc_types(ProductKeys)[i] : i \in 1..Len(ProductKeys)}

\* "Ifc" + IfcType.replace(" ", ""), IfcBuildingElementProxy for "Undefined"
TypeName(t) ==
    CASE t = "Undefined" -> "IfcBuildingElementProxy"
      [] t = "Building Element Proxy" -> "IfcBuildingElementProxy"
      [] OTHER -> "Ifc" \o t

SupportedSchemas == {"IfcProduct", "IfcContext", "IfcType"}

\* for one of the supported values of obj.IfcSchema
get_ifc_schema(schema) ==
    IF schema = "IfcContext" THEN IfcContexts ELSE IfcProducts

\* the value of the IfcAttributes map of a legacy object: no attribute
\* schemas recorded
LegacyIfcAttributes == {}

\* index of the first attribute of that name in the schema, 0 for None
getIfcAttributeSchema(ifcTypeSchema, name) ==
    IF \E i \in 1..Len(ifcTypeSchema) : ifcTypeSchema[i].name = name
    THEN CHOOSE i \in 1..Len(ifcTypeSchema) :
            /\ ifcTypeSchema[i].name = name
            /\ \A j \in 1..(i - 1) : ifcTypeSchema[j].name # name
    ELSE 0

\* st is the object: [pg |-> PropGroup, attrs |-> IfcDataAttrs,
\*                    expr |-> Expressions]
purgeUnusedIfcAttributesFromPropertiesList(ifcTypeSchema, st) ==
    [st EXCEPT !.pg =
        [p \in PropNames |->
            IF st.pg[p] = AttrGroup
               /\ LET a == getIfcAttributeSchema(ifcTypeSchema, p)
                  IN  a = 0 \/ ifcTypeSchema[a].is_enum
            THEN ""
            ELSE st.pg[p]]]

add_ifc_attribute(st, attribute) ==
    IF st.pg["IfcData"] = ""
    THEN st
    ELSE [st EXCEPT !.attrs = @ \cup {attribute.name},
                    !.pg[attribute.name] = AttrGroup]

add_ifc_attribute_value_expressions(st, attribute) ==
    IF st.pg[attribute.name] # AttrGroup
    THEN st
    ELSE IF attribute.name = "OverallHeight"
    THEN IF st.pg["Height"] # ""
         THEN [st EXCEPT !.expr = @ \cup {<<"OverallHeight", "Height.Value">>}]
         ELSE IF st.pg["Shape"] # ""
         THEN [st EXCEPT !.expr =
                   @ \cup {<<"OverallHeight", "Shape.BoundBox.ZLength">>}]
         ELSE st
    ELSE st

\* the names add_ifc_attributes never adds
LeftOut == {"RefLatitude", "RefLongitude", "Name"}

SkipsAttributeExistingOnly(st, attribute) ==
    st.pg[attribute.name] # ""

\* the continue of the loop of add_ifc_attributes
SkipsAttribute(st, attribute) ==
    \/ st.pg[attribute.name] # ""
    \/ attribute.name \in LeftOut

RECURSIVE AddIfcAttributesFrom(_, _, _)
AddIfcAttributesFrom(ifcTypeSchema, i, st) ==
    IF i > Len(ifcTypeSchema)
    THEN st
    ELSE AddIfcAttributesFrom(ifcTypeSchema, i + 1,
            IF SkipsAttribute(st, ifcTypeSchema[i])
            THEN st
            ELSE add_ifc_attribute_value_expressions(
                     add_ifc_attribute(st, ifcTypeSchema[i]),
                     ifcTypeSchema[i]))

AddIfcAttributes(ifcTypeSchema, st) == AddIfcAttributesFrom(ifcTypeSchema, 1, st)

\* m is [pg, type, attrs, role, ifcrole]
migrate_deprecated_attributes(m) ==
    LET m1 == IF m.pg["Role"] = "" THEN m
              ELSE [m EXCEPT !.pg["Role"] = "",
                             !.role = "",
                             !.type = IF m.role \in IfcTypes
                                      THEN m.role ELSE @]
        m2 == IF m1.pg["IfcRole"] = "" THEN m1
              ELSE [m1 EXCEPT !.pg["IfcRole"] = "",
                              !.ifcrole = "",
                              !.type = IF m1.ifcrole \in IfcTypes
                                       THEN m1.ifcrole ELSE @]
    IN  IF m2.pg["IfcAttributes"] = "" THEN m2
        ELSE [m2 EXCEPT !.pg["IfcAttributes"] = "",
                        !.attrs = LegacyIfcAttributes]

\* what set_ifc_properties does after adding the properties: with a
\* supported schema the migration, otherwise the early return
MigrateIfSupported(m, supported) ==
    IF supported THEN migrate_deprecated_attributes(m) ELSE m

IfcObserve(name, schema, r) ==
    /\ ilast' = name
    /\ ischema' = schema
    /\ iraised' = r
    /\ UNCHANGED <<boxvars, clonevars, togglevars, modevars, openvars>>

\* Assigning the list of types to the enumeration leaves it at its first
\* value or, where the host keeps a value that is still offered, at the
\* old one.
set_ifc_properties(ifc_type) ==
    LET pg1 == [p \in PropNames |->
                   IF p \in IfcProps /\ PropGroup[p] = ""
                   THEN IfcGroup ELSE PropGroup[p]]
        schema1 == IF PropGroup["IfcSchema"] = "" THEN ifc_type ELSE IfcSchema
        supported == schema1 \in SupportedSchemas
        types == canonicalize_ifc_types(ProductKeys)
    IN  /\ IfcSchema' = schema1
        /\ IfcTypeEnum' = IF supported THEN IfcTypes ELSE IfcTypeEnum
        /\ \E t0 \in (IF supported
                      THEN {types[1]} \cup ({IfcType} \cap IfcTypes)
                      ELSE {IfcType}) :
              LET m == MigrateIfSupported(
                           [pg |-> pg1, type |-> t0, attrs |-> IfcDataAttrs,
                            role |-> Role, ifcrole |-> IfcRole], supported)
              IN  /\ PropGroup' = m.pg
                  /\ IfcType' = m.type
                  /\ IfcDataAttrs' = m.attrs
                  /\ Role' = m.role
                  /\ IfcRole' = m.ifcrole
        /\ UNCHANGED <<Expressions, iclean>>
        /\ IfcObserve("set_ifc_properties", <<>>, FALSE)

\* obj.IfcType = t, by the user or by the object's code
SetIfcType(t) ==
    /\ PropGroup["IfcType"] # ""
    /\ t \in IfcTypeEnum
    /\ t # IfcType
    /\ IfcType' = t
    /\ UNCHANGED <<PropGroup, IfcSchema, IfcTypeEnum, Role, IfcRole,
                   IfcDataAttrs, Expressions, iclean>>
    /\ IfcObserve("SetIfcType", <<>>, FALSE)

\* Reading obj.IfcType or obj.IfcSchema of an object without them raises
\* AttributeError; with an unsupported IfcSchema get_ifc_schema returns
\* None and `name in None` raises TypeError.
setup_ifc_attributes ==
    IF \/ PropGroup["IfcType"] = ""
       \/ PropGroup["IfcSchema"] = ""
       \/ IfcSchema \notin SupportedSchemas
    THEN /\ UNCHANGED <<PropGroup, IfcSchema, IfcType, IfcTypeEnum, Role,
                        IfcRole, IfcDataAttrs, Expressions, iclean>>
         /\ IfcObserve("setup_ifc_attributes", <<>>, TRUE)
    ELSE LET all == get_ifc_schema(IfcSchema)
             name == TypeName(IfcType)
         IN  IF name \notin DOMAIN all
             THEN /\ UNCHANGED <<PropGroup, IfcSchema, IfcType, IfcTypeEnum,
                                 Role, IfcRole, IfcDataAttrs, Expressions,
                                 iclean>>
                  /\ IfcObserve("setup_ifc_attributes", <<>>, FALSE)
             ELSE LET ifcTypeSchema == all[name].attributes
                      st == AddIfcAttributes(ifcTypeSchema,
                               purgeUnusedIfcAttributesFromPropertiesList(
                                   ifcTypeSchema,
                                   [pg |-> PropGroup, attrs |-> IfcDataAttrs,
                                    expr |-> Expressions]))
                  IN  /\ PropGroup' = st.pg
                      /\ IfcDataAttrs' = st.attrs
                      /\ Expressions' = st.expr
                      /\ UNCHANGED <<IfcSchema, IfcType, IfcTypeEnum, Role,
                                     IfcRole, iclean>>
                      /\ IfcObserve("setup_ifc_attributes", ifcTypeSchema,
                                    FALSE)

\* the type schemas a caller can hand to add_ifc_attributes
TypeSchemas ==
    {IfcProducts[k].attributes : k \in DOMAIN IfcProducts}
    \cup {IfcContexts[k].attributes : k \in DOMAIN IfcContexts}

add_ifc_attributes(ifcTypeSchema) ==
    LET st == AddIfcAttributes(ifcTypeSchema,
                  [pg |-> PropGroup, attrs |-> IfcDataAttrs,
                   expr |-> Expressions])
    IN  /\ PropGroup' = st.pg
        /\ IfcDataAttrs' = st.attrs
        /\ Expressions' = st.expr
        /\ iclean' = FALSE
        /\ UNCHANGED <<IfcSchema, IfcType, IfcTypeEnum, Role, IfcRole>>
        /\ IfcObserve("add_ifc_attributes", ifcTypeSchema, FALSE)

\* the ifc_type arguments: the three documented ones and another string
IfcTypeArgs == SupportedSchemas \cup {"IfcWall"}

\* A new object, or one saved by an older version that still carries
\* Role, IfcRole or IfcAttributes; it may have a Description and a Height
\* of its own.
InitIfc ==
    /\ BoxIdle
    /\ CloneIdle
    /\ ToggleIdle
    /\ ModesIdle
    /\ OpenIdle
    /\ Role \in {"", "Window"}
    /\ IfcRole \in {"", "Undefined"}
    /\ \E legacy \in BOOLEAN, descr \in BOOLEAN, height \in BOOLEAN :
          PropGroup =
              [p \in PropNames |->
                  CASE p \in {"Shape", "Label"} -> "Base"
                    [] p = "Role" -> IF Role # "" THEN "Arch" ELSE ""
                    [] p = "IfcRole" -> IF IfcRole # "" THEN "Arch" ELSE ""
                    [] p = "IfcAttributes" -> IF legacy THEN "Arch" ELSE ""
                    [] p = "Description" -> IF descr THEN "Base" ELSE ""
                    [] p = "Height" -> IF height THEN "Base" ELSE ""
                    [] OTHER -> ""]
    /\ IfcSchema = ""
    /\ IfcType = ""
    /\ IfcTypeEnum = {}
    /\ IfcDataAttrs = {}
    /\ Expressions = {}
    /\ ilast = "init"
    /\ ischema = <<>>
    /\ iraised = FALSE
    /\ iclean = TRUE

PropertiesList == {p \in DOMAIN PropGroup : PropGroup[p] # ""}

\* C13 (as stated): after set_ifc_properties returns, whatever the object
\* and the ifc_type argument, the object has IfcData, IfcType, IfcSchema
\* and IfcProperties and none of Role, IfcRole and IfcAttributes.
C13_IfcPropertiesAndNoDeprecated ==
    ilast = "set_ifc_properties" =>
        /\ IfcProps \subseteq PropertiesList
        /\ Deprecated \cap PropertiesList = {}

\* C14 (as stated): after add_ifc_attributes every schema attribute not
\* named RefLatitude, RefLongitude or Name is a property of the object, no
\* property of those three names has been added, and every property the
\* object had is still the one it was.
C14_EverySchemaAttributeAdded ==
    [][ilast' = "add_ifc_attributes" =>
          LET names == {ischema'[i].name : i \in 1..Len(ischema')}
          IN  /\ \A n \in names \ LeftOut : PropGroup'[n] # ""
              /\ \A n \in LeftOut : PropGroup'[n] = PropGroup[n]
              /\ \A p \in PropNames :
                    PropGroup[p] # "" => PropGroup'[p] = PropGroup[p]
      ]_vars

\* C14 (amended): the same, the first part for an object that has an
\* IfcData property; on an object without IfcData nothing is added.
C14_SchemaAttributesAddedWithIfcData ==
    [][ilast' = "add_ifc_attributes" =>
          LET names == {ischema'[i].name : i \in 1..Len(ischema')}
          IN  /\ IF PropGroup["IfcData"] # ""
                 THEN \A n \in names \ LeftOut : PropGroup'[n] # ""
                 ELSE PropGroup' = PropGroup
              /\ \A n \in LeftOut : PropGroup'[n] = PropGroup[n]
              /\ \A p \in PropNames :
                    PropGroup[p] # "" => PropGroup'[p] = PropGroup[p]
      ]_vars

\* the attributes of a site were added to an object that has IfcData and a
\* Description of its own: LandTitleNumber was added, RefLatitude and Name
\* were left out, Description was kept
C14_Witness ==
    /\ ilast = "add_ifc_attributes"
    /\ ischema = IfcProducts["IfcSite"].attributes
    /\ PropGroup["IfcData"] # ""
    /\ PropGroup["LandTitleNumber"] = AttrGroup
    /\ PropGroup["Description"] = "Base"
    /\ PropGroup["RefLatitude"] = ""
    /\ PropGroup["Name"] = ""
    /\ IfcDataAttrs = {"LandTitleNumber"}

\* C16 (as stated): after IfcType changes each followed by
\* setup_ifc_attributes, every attribute name recorded in
\* IfcData["attributes"] is the name of a property the object has.
C16_RecordedAttributesAreProperties ==
    (ilast = "setup_ifc_attributes" /\ iclean /\ ~iraised) =>
        IfcDataAttrs \subseteq PropertiesList

NextIfc ==
    \/ \E ifc_type \in IfcTypeArgs : set_ifc_properties(ifc_type)
    \/ \E t \in IfcTypes : SetIfcType(t)
    \/ setup_ifc_attributes
    \/ \E s \in TypeSchemas : add_ifc_attributes(s)

SpecIfc == InitIfc /\ [][NextIfc]_vars

(***************************************************************************)
(* archobjects/opening.py                                                  *)
(*                                                                         *)
(* One object with its Opening proxy, as Opening(obj) leaves it.  Shapes   *)
(* are named by the call that builds them; host calls (Part, App.Matrix,   *)
(* DraftVecUtils) return normally and a host shape is true in `if f`.      *)
(* Thickness, louvres and symbols do not bear on what is returned or       *)
(* rotated and are left out of the window parts.                           *)
(***************************************************************************)
\* the values set_properties gives the Filling enumeration
Fillings == <<"None", "Default Door", "Default Window", "By Sketch", "Custom">>

\* the properties set_properties adds to the object
OpeningProps ==
    {"Addition", "AdditionElements", "Filling", "FillingAlignment",
     "FillingDisplacement", "FillingElement", "FillingMode", "Void",
     "VoidElement", "OpeningWidth", "OpeningHeight", "HostThickness"}

\* Python's None as a returned shape
NoShape == "None"

\* a window part specifies no "Mode" entry
NoMode == -1

\* one window part: the wire numbers, the number of the hinge edge (0: no
\* "Edge" entry), the digit of the "Mode" entry, the offset
Part(w, e, m, z) == [wires |-> w, edge |-> e, mode |-> m, zof |-> z]

WindowPartSet ==
    {Part(w, e, m, z) : w \in {<<>>, <<0, 1>>}, e \in 0..2,
                        m \in {NoMode, 1, 9}, z \in {0, 10}}

\* the sequences of at most n window parts
PartsUpTo(n) == UNION {[1..k -> WindowPartSet] : k \in 0..n}

\* rotdata: None, or [point on the hinge, hinge axis, angle]; the angle is
\* kept in hundredths of a degree, the point as hinge and shift along the
\* normal
NoRot == [set |-> FALSE, about |-> 0, angle |-> 0, shift |-> 0]

\* degrees of a full opening in mode 1 to 8
Angle(omode) ==
    CASE omode = 1 -> 90
      [] omode = 2 -> 0 - 90
      [] omode = 3 -> 45
      [] omode = 4 -> 0 - 45
      [] omode = 5 -> 180
      [] omode = 6 -> 0 - 180
      [] omode = 7 -> 90
      [] omode = 8 -> 0 - 90

\* w.BoundBox.DiagonalLength: the wires of the sketch from the outermost in
WireDiagonal(j) == NumWires - j

\* the wires named by the part: [raised, wires]
RECURSIVE CollectWires(_, _, _)
CollectWires(tokens, k, acc) ==
    IF k > Len(tokens)
    THEN [raised |-> FALSE, wires |-> acc]
    ELSE LET j == tokens[k]
         IN  IF NumWires > 0 /\ NumWires >= j
             THEN IF j >= NumWires
                  THEN [raised |-> TRUE, wires |-> acc]
                  ELSE CollectWires(tokens, k + 1, Append(acc, j))
             ELSE CollectWires(tokens, k + 1, acc)

\* the first wire of the largest diagonal
Ext(wires) ==
    LET k == CHOOSE k \in 1..Len(wires) :
                 /\ \A l \in 1..Len(wires) :
                       WireDiagonal(wires[l]) <= WireDiagonal(wires[k])
                 /\ \A l \in 1..(k - 1) :
                       WireDiagonal(wires[l]) < WireDiagonal(wires[k])
    IN  k

\* wires.remove(ext)
RemoveAt(seq, k) ==
    [l \in 1..(Len(seq) - 1) |-> IF l < k THEN seq[l] ELSE seq[l + 1]]

RotdataAtPartStartFresh(prev) == NoRot

\* rotdata as a part finds it: assigned None once, before the loop, it is
\* what the part before left
RotdataAtPartStart(prev) == prev

\* one pass of the loop over the window parts; st is
\* [rotdata, shapes, raised]
SketchPart(st, i, parts, opening) ==
    LET p == parts[i]
        rot0 == RotdataAtPartStart(st.rotdata)
        cw == CollectWires(p.wires, 1, <<>>)
        hinge == p.edge - 1
        hingeSet == p.edge # 0 /\ hinge # 0
        omodeSet == p.mode # NoMode /\ p.mode # 0
        rot1 == IF hingeSet /\ omodeSet /\ p.mode \in 1..8 /\ opening # 0
                THEN [set |-> TRUE, about |-> hinge,
                      angle |-> Angle(p.mode) * opening, shift |-> 0]
                ELSE rot0
        rot2 == IF p.zof # 0 /\ rot1.set /\ hingeSet /\ omodeSet
                THEN [rot1 EXCEPT !.shift = @ + p.zof]
                ELSE rot1
    IN  IF cw.raised
        THEN [st EXCEPT !.raised = TRUE]
        ELSE IF cw.wires = <<>>
        THEN [st EXCEPT !.rotdata = rot0]
        ELSE [rotdata |-> rot2,
              raised |-> FALSE,
              shapes |-> Append(st.shapes,
                  [part |-> i,
                   ext |-> cw.wires[Ext(cw.wires)],
                   holes |-> RemoveAt(cw.wires, Ext(cw.wires)),
                   offset |-> p.zof,
                   rotated |-> rot2.set,
                   about |-> rot2.about,
                   angle |-> rot2.angle,
                   shift |-> rot2.shift])]

RECURSIVE SketchParts(_, _, _, _)
SketchParts(st, i, parts, opening) ==
    IF i > Len(parts) \/ st.raised
    THEN st
    ELSE SketchParts(SketchPart(st, i, parts, opening), i + 1, parts, opening)

\* [raised, shapes]: the shapes handed to Part.makeCompound
get_filling_by_sketch(parts, opening) ==
    SketchParts([rotdata |-> NoRot, shapes |-> <<>>, raised |-> FALSE],
                1, parts, opening)

\* None without the two lengths, otherwise the box
get_default_door_shape(props) ==
    IF "OpeningWidth" \notin props \/ "OpeningHeight" \notin props
    THEN NoShape ELSE "Part.makeBox"

get_default_window_shape(props) ==
    IF "OpeningWidth" \notin props \/ "OpeningHeight" \notin props
    THEN NoShape ELSE "Part.makeBox"

\* [raised, f]: reading obj.WindowParts of an object without it raises
\* AttributeError
get_filling_shape(props, filling, element, hasparts, parts, opening) ==
    IF "Filling" \notin props
    THEN [raised |-> FALSE, f |-> NoShape]
    ELSE CASE filling = "None" -> [raised |-> FALSE, f |-> "Part.Shape"]
           [] filling = "Default Door" ->
                [raised |-> FALSE, f |-> get_default_door_shape(props)]
           [] filling = "Default Window" ->
                [raised |-> FALSE, f |-> get_default_window_shape(props)]
           [] filling = "By Sketch" ->
                IF ~hasparts
                THEN [raised |-> TRUE, f |-> NoShape]
                ELSE [raised |-> get_filling_by_sketch(parts, opening).raised,
                      f |-> "Part.makeCompound"]
           [] filling = "Custom" ->
                IF "FillingElement" \in props /\ element
                THEN [raised |-> FALSE, f |-> "FillingElement.Shape"]
                ELSE [raised |-> FALSE, f |-> NoShape]
           [] OTHER -> [raised |-> FALSE, f |-> NoShape]

OpenFrame ==
    UNCHANGED <<boxvars, clonevars, togglevars, modevars, ifcvars>>

\* get_addition_shape and get_void_shape change nothing
execute ==
    LET r == get_filling_shape(OpeningProps, Filling, FillingElement,
                               hasWindowParts, WindowParts, OpeningPercent)
    IN  /\ olast' = "execute"
        /\ oraised' = r.raised
        /\ IF r.raised
           THEN UNCHANGED <<Shape, fret, sketch>>
           ELSE /\ Shape' = r.f
                /\ fret' = r.f
                /\ sketch' = IF Filling = "By Sketch"
                             THEN get_filling_by_sketch(WindowParts,
                                                        OpeningPercent).shapes
                             ELSE sketch
        /\ UNCHANGED <<Filling, FillingElement, hasWindowParts, WindowParts,
                       OpeningPercent>>
        /\ OpenFrame

\* the user picks a value of the Filling enumeration
SetFilling(v) ==
    /\ v # Filling
    /\ Filling' = v
    /\ olast' = "SetFilling"
    /\ UNCHANGED <<FillingElement, hasWindowParts, WindowParts,
                   OpeningPercent, Shape, fret, sketch, oraised>>
    /\ OpenFrame

\* the user links or unlinks the filling element
SetFillingElement(e) ==
    /\ e # FillingElement
    /\ FillingElement' = e
    /\ olast' = "SetFillingElement"
    /\ UNCHANGED <<Filling, hasWindowParts, WindowParts, OpeningPercent,
                   Shape, fret, sketch, oraised>>
    /\ OpenFrame

\* get_filling_by_sketch called on an object that has WindowParts and Base
get_filling_by_sketch_call ==
    LET r == get_filling_by_sketch(WindowParts, OpeningPercent)
    IN  /\ hasWindowParts
        /\ olast' = "get_filling_by_sketch"
        /\ oraised' = r.raised
        /\ sketch' = r.shapes
        /\ UNCHANGED <<Filling, FillingElement, hasWindowParts, WindowParts,
                       OpeningPercent, Shape, fret>>
        /\ OpenFrame

\* the percentages obj.Opening takes in the model
Percents == {0, 50}

SetOpening(o) ==
    /\ o # OpeningPercent
    /\ OpeningPercent' = o
    /\ olast' = "SetOpening"
    /\ UNCHANGED <<Filling, FillingElement, hasWindowParts, WindowParts,
                   Shape, fret, sketch, oraised>>
    /\ OpenFrame

OthersIdle ==
    /\ BoxIdle
    /\ CloneIdle
    /\ ToggleIdle
    /\ ModesIdle
    /\ IfcIdle

\* The object as Opening(obj) leaves it; it may have been given WindowParts,
\* Base and Opening by hand, here with at most one window part.
InitOpening ==
    /\ OthersIdle
    /\ Filling = Fillings[1]
    /\ FillingElement = FALSE
    /\ hasWindowParts \in BOOLEAN
    /\ WindowParts \in (IF hasWindowParts THEN PartsUpTo(1) ELSE {<<>>})
    /\ OpeningPercent \in (IF hasWindowParts THEN Percents ELSE {0})
    /\ Shape = ""
    /\ fret = ""
    /\ sketch = <<>>
    /\ olast = "init"
    /\ oraised = FALSE

NextOpening ==
    \/ execute
    \/ \E i \in 1..Len(Fillings) : SetFilling(Fillings[i])
    \/ \E e \in BOOLEAN : SetFillingElement(e)

SpecOpening == InitOpening /\ [][NextOpening]_vars

\* An object filled by sketch with up to MaxParts window parts.
InitSketch ==
    /\ OthersIdle
    /\ Filling = "By Sketch"
    /\ FillingElement = FALSE
    /\ hasWindowParts = TRUE
    /\ WindowParts \in PartsUpTo(MaxParts)
    /\ OpeningPercent \in Percents
    /\ Shape = ""
    /\ fret = ""
    /\ sketch = <<>>
    /\ olast = "init"
    /\ oraised = FALSE

NextSketch ==
    \/ get_filling_by_sketch_call
    \/ \E o \in Percents : SetOpening(o)

SpecSketch == InitSketch /\ [][NextSketch]_vars

\* C15 (as stated): on an object that has the properties set_properties
\* defines, execute sets Shape to what get_filling_shape returns, and that
\* is a shape, never None, for each of the five values of Filling.
C15_FillingShapeNeverNone ==
    (olast = "execute" /\ ~hasWindowParts) =>
        /\ ~oraised
        /\ fret # NoShape
        /\ Shape = fret

\* the part makes rotation data: it has wires, a hinge that is not the
\* first edge, a mode from 1 to 8, and the window is opened
SetsRotation(p) ==
    /\ p.wires # <<>>
    /\ p.edge >= 2
    /\ p.mode \in 1..8
    /\ OpeningPercent # 0

====
